---- MODULE Spec2Model ----
(***************************************************************************)
(* entt::delegate<Ret(Args...)> (src/src/entt/signal/delegate.hpp).        *)
(*                                                                         *)
(* A delegate is a pointer-sized byte buffer `storage` and a trampoline    *)
(* `fn`.  The model keeps the buffer as a sequence of bytes, so that a     *)
(* placement-new of a payload smaller than the buffer leaves the bytes     *)
(* behind it untouched, and keeps the trampoline as the identity of the    *)
(* lambda that connect instantiated: one lambda per template argument      *)
(* list, <Function>, <Candidate, Type> or <Invokable>.                     *)
(*                                                                         *)
(* Ret and Args... are instantiated as unsigned(unsigned): one argument,   *)
(* arithmetic modulo the width of the type.  The callables handed to       *)
(* connect are inputs; a small family of them is defined below.            *)
(***************************************************************************)
EXTENDS Integers, Sequences, FiniteSets, TLC

VARIABLES
    storage,   \* delegate -> the bytes of its storage_type buffer
    fn,        \* delegate -> the trampoline it holds (NullFn when none)
    obj,       \* instance -> its Counter::value
    ndebug,    \* TRUE when the build compiles assert() out
    status,    \* "running" | "aborted" (assert failed) | "undefined" (UB)
    lastOp,    \* history: delegate -> last state-changing operation on it
    bound,     \* history: delegate -> the arguments of its last connect
    shadow,    \* history: delegate -> the caller's payload under direct calls
    last       \* history: the operation performed by the last step

vars == <<storage, fn, obj, ndebug, status, lastOp, bound, shadow, last>>

----------------------------------------------------------------------------
(* Sizes and value domains *)

\* sizeof(void *), in bytes, scaled down
PtrSize == 3

\* number of values a byte takes, scaled down
ByteMod == 2

\* largest call argument tried
MaxArg == 1

\* the bytes of void *{nullptr}
NullPtr == 0

Byte == 0..(ByteMod - 1)

WordMod == ByteMod ^ PtrSize

Word == 0..(WordMod - 1)

CallArgs == 0..MaxArg

Delegates == {"lhs", "rhs"}

Instances == {"i1", "i2"}

\* the address of an instance: non-null, distinct, every byte significant
AddrOf(i) == IF i = "i1" THEN WordMod - 1 ELSE WordMod - 2

\* the object representation of v in n bytes (little endian)
Encode(v, n) == [k \in 1..n |-> (v \div (ByteMod ^ (k - 1))) % ByteMod]

RECURSIVE Decode(_)
\* the value whose object representation is bytes
Decode(bytes) ==
    IF Len(bytes) = 0 THEN 0
    ELSE bytes[1] + ByteMod * Decode(Tail(bytes))

\* new (&storage) T{...}: writes sizeof(T) bytes at the start of the buffer
\* and nothing else; a payload longer than the buffer runs past its end
PlacementNew(stor, bytes) ==
    [k \in 1..(IF Len(bytes) > Len(stor) THEN Len(bytes) ELSE Len(stor)) |->
        IF k <= Len(bytes) THEN bytes[k] ELSE stor[k]]

\* storage{} : a value-initialised buffer
ZeroStorage == [k \in 1..PtrSize |-> 0]

----------------------------------------------------------------------------
(* The types and callables handed to connect *)

FreeFunctions == {"f_twice", "f_succ", "f_binary"}

Candidates == {"g_add", "g_acc", "Counter::increment", "Counter::get"}

ValueTypes == {"char", "intptr", "Counter*", "longdouble", "NonTrivCopy", "NonTrivDtor"}

InvokableTypes == {"Lambda", "Adder", "Accum", "NtcAdder", "NtdAdder", "PtrFunctor", "fnptr"}

SizeOf(T) ==
    CASE T \in {"intptr", "Counter*", "PtrFunctor", "fnptr"} -> PtrSize
      [] T = "longdouble" -> PtrSize + 1
      [] OTHER -> 1

IsClass(T) ==
    T \in {"NonTrivCopy", "NonTrivDtor", "Lambda", "Adder", "Accum",
           "NtcAdder", "NtdAdder", "PtrFunctor"}

\* a user-provided destructor
TriviallyDestructible(T) == T \notin {"NonTrivDtor", "NtdAdder"}

\* a user-provided copy constructor, or a non-trivial destructor
TriviallyCopyable(T) == T \notin {"NonTrivCopy", "NonTrivDtor", "NtcAdder", "NtdAdder"}

\* an empty class: its one byte is padding, it has no value representation
IsEmptyClass(T) == T = "Lambda"

\* std::is_invocable_r_v<Ret, decltype(Function), Args...>
InvocableFunction(f) == f \in {"f_twice", "f_succ"}

\* std::is_invocable_r_v<Ret, decltype(Candidate), Type &, Args...>:
\* g_add takes its first parameter by value (anything convertible),
\* g_acc takes it by non-const reference, the members take a Counter
InvocableCandidate(cand, T) ==
    CASE cand = "g_add" -> T \in ValueTypes \ {"Counter*"}
      [] cand = "g_acc" -> T = "intptr"
      [] OTHER -> T = "Counter*"

\* std::is_invocable_r_v<Ret, Invokable, Args...>
InvocableObject(T) == T \in InvokableTypes

\* the values of a type that the callers pass
ValuesOf(T) ==
    CASE T = "intptr" -> {0, 1, WordMod - 1}
      [] T = "Counter*" -> {AddrOf(i) : i \in Instances}
      [] T \in {"char", "Adder", "Accum", "NtcAdder", "NtdAdder"} -> Byte
      [] OTHER -> {0}

\* Function(args...)
ApplyFunction(f, a) ==
    IF f = "f_twice" THEN (2 * a) % WordMod ELSE (a + 1) % WordMod

\* Candidate(value_or_instance, args...) on the object v, with the instances o:
\* the result, the object afterwards and the instances afterwards.  A pointer
\* that is no instance's address is a wild call: the result WordMod.
ApplyCandidate(cand, v, a, o) ==
    CASE cand = "g_add" -> [ret |-> (v + a) % WordMod, payload |-> v, obj |-> o]
      [] cand = "g_acc" ->
            [ret |-> (v + a) % WordMod, payload |-> (v + a) % WordMod, obj |-> o]
      [] OTHER ->
            IF \E i \in Instances : AddrOf(i) = v
            THEN LET i == CHOOSE j \in Instances : AddrOf(j) = v IN
                 IF cand = "Counter::increment"
                 THEN [ret |-> (o[i] + a) % ByteMod, payload |-> v,
                       obj |-> [o EXCEPT ![i] = (o[i] + a) % ByteMod]]
                 ELSE [ret |-> (o[i] + a) % WordMod, payload |-> v, obj |-> o]
            ELSE [ret |-> WordMod, payload |-> v, obj |-> o]

\* invokable(args...) on the object v: the result and the object afterwards
ApplyObject(T, v, a) ==
    CASE T = "Lambda" -> [ret |-> (a + 1) % WordMod, payload |-> v]
      [] T = "Accum" -> [ret |-> (v + a) % ByteMod, payload |-> (v + a) % ByteMod]
      [] OTHER -> [ret |-> (v + a) % WordMod, payload |-> v]

----------------------------------------------------------------------------
(* The delegate *)

NullFn == [kind |-> "null", cand |-> "-", type |-> "-"]

\* the lambda of connect<Function>()
FunctionThunk(f) == [kind |-> "function", cand |-> f, type |-> "-"]

\* the lambda of connect<Candidate, Type>(Type)
CandidateThunk(cand, T) == [kind |-> "candidate", cand |-> cand, type |-> T]

\* the lambda of connect<Invokable>(Invokable)
InvokableThunk(T) == [kind |-> "invokable", cand |-> "operator()", type |-> T]

\* delegate(): storage{}, fn{nullptr}, then new (&storage) void *{nullptr}
DefaultDelegate ==
    [storage |-> PlacementNew(ZeroStorage, Encode(NullPtr, PtrSize)), fn |-> NullFn]

ConnectFunctionAccepts(f) == InvocableFunction(f)

ConnectFunctionOp_KeepStorage(del, f) ==
    [storage |-> del.storage, fn |-> FunctionThunk(f)]

\* connect<Function>()
ConnectFunctionOp(del, f) ==
    [storage |-> PlacementNew(del.storage, Encode(NullPtr, PtrSize)),
     fn |-> FunctionThunk(f)]

ConnectCandidateAccepts_NoSize(cand, T) ==
    /\ TriviallyCopyable(T)
    /\ TriviallyDestructible(T)
    /\ InvocableCandidate(cand, T)

\* the static_asserts of connect<Candidate, Type>(Type)
ConnectCandidateAccepts(cand, T) ==
    /\ SizeOf(T) <= PtrSize
    /\ TriviallyCopyable(T)
    /\ TriviallyDestructible(T)
    /\ InvocableCandidate(cand, T)

ConnectCandidateOp_NoStore(del, cand, T, v) ==
    [storage |-> del.storage, fn |-> CandidateThunk(cand, T)]

\* connect<Candidate, Type>(Type value_or_instance)
ConnectCandidateOp(del, cand, T, v) ==
    [storage |-> PlacementNew(del.storage, Encode(v, SizeOf(T))),
     fn |-> CandidateThunk(cand, T)]

\* the static_asserts of connect<Invokable>(Invokable)
ConnectInvokableAccepts(T) ==
    /\ SizeOf(T) < PtrSize
    /\ IsClass(T)
    /\ TriviallyDestructible(T)
    /\ InvocableObject(T)

\* the bytes Invokable{std::move(invokable)} writes: the members of the
\* object; the byte of an empty class is padding and holds pad
ObjectBytes(T, v, pad) ==
    IF IsEmptyClass(T) THEN <<pad>> ELSE Encode(v, SizeOf(T))

\* what the padding byte of a copied object may hold afterwards
PaddingOf(T) == IF IsEmptyClass(T) THEN Byte ELSE {0}

\* connect<Invokable>(Invokable invokable)
ConnectInvokableOp(del, T, v, pad) ==
    [storage |-> PlacementNew(del.storage, ObjectBytes(T, v, pad)),
     fn |-> InvokableThunk(T)]

ResetOp_KeepStorage(del) == [storage |-> del.storage, fn |-> NullFn]

ResetOp_KeepFn(del) ==
    [storage |-> PlacementNew(del.storage, Encode(NullPtr, PtrSize)), fn |-> del.fn]

\* reset()
ResetOp(del) ==
    [storage |-> PlacementNew(del.storage, Encode(NullPtr, PtrSize)), fn |-> NullFn]

\* instance(): *reinterpret_cast<const void **>(&storage)
InstanceOf(stor) == Decode(SubSeq(stor, 1, PtrSize))

\* operator bool
OperatorBool(f) == f # NullFn

\* operator==
OperatorEq(f, g) == f = g

\* operator!=
OperatorNe(f, g) == ~OperatorEq(f, g)

PayloadOf_WholeWord(f, stor) == Decode(stor)

\* *reinterpret_cast<Type *>(&storage): the object the trampoline sees
PayloadOf(f, stor) == Decode(SubSeq(stor, 1, SizeOf(f.type)))

WriteThrough_WholeWord(f, stor, v) == Encode(v, PtrSize)

\* an assignment through the Type & / Invokable & that the trampoline hands
\* to the callable: the object at the start of the buffer takes the value v
WriteThrough(f, stor, v) ==
    IF IsEmptyClass(f.type) THEN stor
    ELSE PlacementNew(stor, Encode(v, SizeOf(f.type)))

\* fn(storage, args...): the trampoline f run on the buffer stor with the
\* argument a and the instances o.  The callable gets a reference into the
\* buffer, so what it writes to its first parameter / its members lands there.
Thunk(f, stor, a, o) ==
    CASE f.kind = "function" ->
            [ret |-> ApplyFunction(f.cand, a), storage |-> stor, obj |-> o]
      [] f.kind = "candidate" ->
            LET r == ApplyCandidate(f.cand, PayloadOf(f, stor), a, o) IN
            [ret |-> r.ret, storage |-> WriteThrough(f, stor, r.payload), obj |-> r.obj]
      [] OTHER ->
            LET r == ApplyObject(f.type, PayloadOf(f, stor), a) IN
            [ret |-> r.ret, storage |-> WriteThrough(f, stor, r.payload), obj |-> o]

AssertFn_Off(f) == TRUE

\* assert(fn)
AssertFn(f) == f # NullFn

----------------------------------------------------------------------------
(* History *)

NoBind == [kind |-> "none", cand |-> "-", type |-> "-", val |-> 0]

\* prev: the last state-changing operation on d before this one
Op(name, d, a, r, c) ==
    [op |-> name, d |-> d, prev |-> lastOp[d], arg |-> a, ret |-> r, called |-> c]

\* the state of d after a binding operation that leaves del
Bind(d, del, how, b) ==
    /\ status = "running"
    /\ storage' = [storage EXCEPT ![d] = del.storage]
    /\ fn' = [fn EXCEPT ![d] = del.fn]
    /\ lastOp' = [lastOp EXCEPT ![d] = how]
    /\ bound' = [bound EXCEPT ![d] = b]
    /\ shadow' = [shadow EXCEPT ![d] = b.val]
    /\ last' = Op(how, d, 0, 0, FALSE)
    /\ UNCHANGED <<obj, ndebug, status>>

Current(d) == [storage |-> storage[d], fn |-> fn[d]]

----------------------------------------------------------------------------
(* Operations *)

Init ==
    /\ storage = [d \in Delegates |-> DefaultDelegate.storage]
    /\ fn = [d \in Delegates |-> DefaultDelegate.fn]
    /\ obj \in [Instances -> Byte]
    /\ ndebug \in BOOLEAN
    /\ status = "running"
    /\ lastOp = [d \in Delegates |-> "construct"]
    /\ bound = [d \in Delegates |-> NoBind]
    /\ shadow = [d \in Delegates |-> 0]
    /\ last = [op |-> "construct", d |-> "lhs", prev |-> "construct",
               arg |-> 0, ret |-> 0, called |-> FALSE]

\* delegate()
Construct(d) == Bind(d, DefaultDelegate, "construct", NoBind)

\* delegate(connect_arg_t<Function>)
ConstructFunction(d) ==
    \E f \in FreeFunctions :
        /\ ConnectFunctionAccepts(f)
        /\ Bind(d, ConnectFunctionOp(DefaultDelegate, f), "connect",
                [kind |-> "function", cand |-> f, type |-> "-", val |-> 0])

\* delegate(connect_arg_t<Candidate>, Type)
ConstructCandidate(d) ==
    \E cand \in Candidates, T \in ValueTypes :
        /\ ConnectCandidateAccepts(cand, T)
        /\ \E v \in ValuesOf(T) :
            Bind(d, ConnectCandidateOp(DefaultDelegate, cand, T, v), "connect",
                 [kind |-> "candidate", cand |-> cand, type |-> T, val |-> v])

\* delegate(Invokable)
ConstructInvokable(d) ==
    \E T \in InvokableTypes :
        /\ ConnectInvokableAccepts(T)
        /\ \E v \in ValuesOf(T), pad \in PaddingOf(T) :
            Bind(d, ConnectInvokableOp(DefaultDelegate, T, v, pad), "connect",
                 [kind |-> "invokable", cand |-> "operator()", type |-> T, val |-> v])

\* connect<Function>()
ConnectFunction(d) ==
    \E f \in FreeFunctions :
        /\ ConnectFunctionAccepts(f)
        /\ Bind(d, ConnectFunctionOp(Current(d), f), "connect",
                [kind |-> "function", cand |-> f, type |-> "-", val |-> 0])

\* connect<Candidate>(value_or_instance)
ConnectCandidate(d) ==
    \E cand \in Candidates, T \in ValueTypes :
        /\ ConnectCandidateAccepts(cand, T)
        /\ \E v \in ValuesOf(T) :
            Bind(d, ConnectCandidateOp(Current(d), cand, T, v), "connect",
                 [kind |-> "candidate", cand |-> cand, type |-> T, val |-> v])

\* connect(invokable)
ConnectInvokable(d) ==
    \E T \in InvokableTypes :
        /\ ConnectInvokableAccepts(T)
        /\ \E v \in ValuesOf(T), pad \in PaddingOf(T) :
            Bind(d, ConnectInvokableOp(Current(d), T, v, pad), "connect",
                 [kind |-> "invokable", cand |-> "operator()", type |-> T, val |-> v])

\* reset()
Reset(d) == Bind(d, ResetOp(Current(d)), "reset", NoBind)

\* the caller's own copy of the payload after calling the bound target on it
DirectCall(b, v, a, o) ==
    CASE b.kind = "function" -> [ret |-> ApplyFunction(b.cand, a), payload |-> v, obj |-> o]
      [] b.kind = "candidate" -> ApplyCandidate(b.cand, v, a, o)
      [] OTHER -> LET r == ApplyObject(b.type, v, a) IN
                  [ret |-> r.ret, payload |-> r.payload, obj |-> o]

\* operator()(args...): assert(fn); return fn(storage, args...)
Invoke(d) ==
    \E a \in CallArgs :
        /\ status = "running"
        /\ IF ~ndebug /\ ~AssertFn(fn[d])
           THEN \* the assertion aborts the program
                /\ status' = "aborted"
                /\ last' = Op("invoke", d, a, 0, FALSE)
                /\ UNCHANGED <<storage, fn, obj, shadow>>
           ELSE IF fn[d] = NullFn
           THEN \* a call through a null function pointer: anything comes back
                /\ status' = "undefined"
                /\ \E r \in Word : last' = Op("invoke", d, a, r, TRUE)
                /\ UNCHANGED <<storage, fn, obj, shadow>>
           ELSE LET r == Thunk(fn[d], storage[d], a, obj) IN
                /\ status' = "running"
                /\ last' = Op("invoke", d, a, r.ret, TRUE)
                /\ storage' = [storage EXCEPT ![d] = r.storage]
                /\ obj' = r.obj
                /\ shadow' = [shadow EXCEPT ![d] =
                                 DirectCall(bound[d], shadow[d], a, obj).payload]
                /\ UNCHANGED fn
        /\ UNCHANGED <<ndebug, lastOp, bound>>

\* a program that uses one delegate
Next ==
    \/ Construct("lhs")
    \/ ConstructFunction("lhs")
    \/ ConstructCandidate("lhs")
    \/ ConstructInvokable("lhs")
    \/ ConnectFunction("lhs")
    \/ ConnectCandidate("lhs")
    \/ ConnectInvokable("lhs")
    \/ Reset("lhs")
    \/ Invoke("lhs")

Spec == Init /\ [][Next]_vars

\* a program that binds two delegates and compares them
NextPair ==
    \E d \in Delegates :
        \/ Construct(d)
        \/ ConnectFunction(d)
        \/ ConnectCandidate(d)
        \/ ConnectInvokable(d)
        \/ Reset(d)

\* the two delegates live in one assertion-enabled program
InitPair == Init /\ ~ndebug /\ obj = [i \in Instances |-> 0]

SpecPair == InitPair /\ [][NextPair]_vars

----------------------------------------------------------------------------
(* Properties *)

\* the delegate that a fresh delegate{} becomes under the connect b;
\* pad is the byte an empty class leaves in its padding
Fresh(b, pad) ==
    CASE b.kind = "function" -> ConnectFunctionOp(DefaultDelegate, b.cand)
      [] b.kind = "candidate" -> ConnectCandidateOp(DefaultDelegate, b.cand, b.type, b.val)
      [] OTHER -> ConnectInvokableOp(DefaultDelegate, b.type, b.val, pad)

\* whether the binding b keeps an object with a value in the buffer
HasPayload(b) == b.kind \in {"candidate", "invokable"} /\ ~IsEmptyClass(b.type)

\* the two bindings name the same function: the same Function, the same
\* Candidate, or the call operator of the same class
SameFunction(b, c) ==
    /\ b.kind = c.kind
    /\ b.cand = c.cand
    /\ b.kind = "invokable" => b.type = c.type

\* C1: operator bool is true exactly when fn is non-null, and that is exactly
\* when the last state-changing operation on the delegate was a connect:
\* false after construction, true after every connect, false after reset.
C1_BoolIffLastOpConnect ==
    \A d \in Delegates :
        /\ OperatorBool(fn[d]) <=> (fn[d] # NullFn)
        /\ OperatorBool(fn[d]) <=> (lastOp[d] = "connect")

\* a reset that follows a connect has left the delegate falsy
C1_Witness ==
    /\ last.op = "reset"
    /\ last.prev = "connect"
    /\ ~OperatorBool(fn["lhs"])

\* C2 (as claimed): every invocation returns what the bound target returns
\* when called directly on the v (or o) that was bound, and leaves the
\* instances as that call leaves them.
C2_InvokeEqualsDirectCallOnCallersValue ==
    [][(last'.op = "invoke" /\ status' = "running") =>
        LET d == last'.d
            dir == DirectCall(bound[d], bound[d].val, last'.arg, obj)
        IN  /\ last'.ret = dir.ret
            /\ obj' = dir.obj]_vars

\* C2 (amended): every invocation returns what the bound target returns when
\* called directly, and changes the instances the same way; a member runs on
\* the caller's instance itself, while a curried function or function object
\* runs on the delegate's own copy of v (or o): the copy equals v at the bind,
\* carries what earlier invocations wrote to it, and the caller's v is never
\* touched.
C2_InvokeEqualsDirectCallOnOwnCopy ==
    [][(last'.op = "invoke" /\ status' = "running") =>
        LET d == last'.d
            dir == DirectCall(bound[d], shadow[d], last'.arg, obj)
        IN  /\ last'.ret = dir.ret
            /\ obj' = dir.obj
            /\ HasPayload(bound[d]) => PayloadOf(fn'[d], storage'[d]) = dir.payload
            /\ bound' = bound]_vars

\* Counter::increment ran through the delegate on the caller's instance i1,
\* changed it and returned its new value
C2_Witness ==
    /\ last.op = "invoke"
    /\ status = "running"
    /\ last.prev = "connect"
    /\ bound["lhs"].cand = "Counter::increment"
    /\ bound["lhs"].val = AddrOf("i1")
    /\ last.arg = 1
    /\ last.ret = obj["i1"]
    /\ obj["i1"] = 1

\* C3 (as claimed): right after a connect, storage and trampoline are those
\* of a fresh delegate connected with the same arguments: no byte of an
\* earlier payload is left.
C3_ConnectLeavesNoResidue ==
    last.op = "connect" =>
        \E pad \in Byte : Current(last.d) = Fresh(bound[last.d], pad)

\* C3 (amended): right after a connect, the trampoline and the bytes of the
\* new payload are those of a fresh delegate connected with the same
\* arguments; bytes behind a payload shorter than the buffer may be left over
\* from an earlier bind, and no invocation depends on them: it returns the
\* same result, changes the instances the same way and leaves the same
\* payload as on the fresh delegate.
C3_ConnectResidueNeverObserved ==
    last.op = "connect" =>
        LET d == last.d
            b == bound[d]
            fresh == Fresh(b, 0)
        IN  /\ fn[d] = fresh.fn
            /\ HasPayload(b) =>
                  SubSeq(storage[d], 1, SizeOf(b.type)) =
                      SubSeq(fresh.storage, 1, SizeOf(b.type))
            /\ b.kind = "function" => storage[d] = fresh.storage
            /\ b.type = "Counter*" => storage[d] = fresh.storage
            /\ \A a \in CallArgs :
                  LET here == Thunk(fn[d], storage[d], a, obj)
                      there == Thunk(fresh.fn, fresh.storage, a, obj)
                  IN  /\ here.ret = there.ret
                      /\ here.obj = there.obj
                      /\ HasPayload(b) =>
                            PayloadOf(fn[d], here.storage) =
                                PayloadOf(fresh.fn, there.storage)

\* a char was curried over an instance pointer, whose last byte is still there
C3_Witness ==
    /\ last.op = "connect"
    /\ last.prev = "connect"
    /\ bound["lhs"].type = "char"
    /\ storage["lhs"][PtrSize] # 0

\* C4: operator== is true exactly when the trampolines are identical; two
\* delegates bound to the same function are equal whatever instance or value
\* each captured, two delegates bound to different functions are unequal, and
\* operator!= is the negation of operator==.
C4_EqualIffSameFunction ==
    LET l == "lhs"
        r == "rhs"
    IN  /\ OperatorEq(fn[l], fn[r]) <=> (fn[l] = fn[r])
        /\ OperatorNe(fn[l], fn[r]) <=> ~OperatorEq(fn[l], fn[r])
        /\ (lastOp[l] = "connect" /\ lastOp[r] = "connect") =>
              (OperatorEq(fn[l], fn[r]) <=> SameFunction(bound[l], bound[r]))

\* C5: instance() is &i after connect<m>(&i), and null after construction,
\* after reset and after connect<f>() of a free function, whatever the
\* delegate held before.
C5_InstanceReflectsLastOp ==
    \A d \in Delegates :
        /\ (lastOp[d] = "connect" /\ bound[d].type = "Counter*") =>
              InstanceOf(storage[d]) = bound[d].val
        /\ (lastOp[d] \in {"construct", "reset"}) =>
              InstanceOf(storage[d]) = NullPtr
        /\ (lastOp[d] = "connect" /\ bound[d].kind = "function") =>
              InstanceOf(storage[d]) = NullPtr

\* a member was bound to i2 over an earlier binding
C5_Witness ==
    /\ last.op = "connect"
    /\ last.prev = "connect"
    /\ bound["lhs"].cand = "Counter::get"
    /\ InstanceOf(storage["lhs"]) = AddrOf("i2")

\* C6: after reset the delegate is in the state of a default-constructed
\* one (null marker in storage, null trampoline), so it compares equal to
\* one and instance() is null; a second reset changes nothing.
C6_ResetRestoresEmpty ==
    \A d \in Delegates :
        lastOp[d] = "reset" =>
            /\ Current(d) = DefaultDelegate
            /\ storage[d] = Encode(NullPtr, PtrSize)
            /\ fn[d] = NullFn
            /\ OperatorEq(fn[d], DefaultDelegate.fn)
            /\ InstanceOf(storage[d]) = NullPtr
            /\ ResetOp(Current(d)) = Current(d)

\* a reset of a bound delegate
C6_Witness ==
    /\ last.op = "reset"
    /\ last.prev = "connect"
    /\ Current("lhs") = DefaultDelegate
    /\ status = "running"

\* C7: invoking a delegate whose last state-changing operation was not a
\* connect never returns: where assert() is compiled in, the assertion
\* aborts the program before the trampoline is called, and where it is
\* compiled out the call is undefined; nothing runs after either.  After a
\* connect the assertion passes and the trampoline is called.
C7_AssertGuardsInvoke ==
    /\ [](last.op = "invoke" =>
            /\ lastOp[last.d] # "connect" =>
                  /\ status # "running"
                  /\ ~ndebug => (status = "aborted" /\ ~last.called)
            /\ lastOp[last.d] = "connect" =>
                  (status = "running" /\ last.called))
    /\ [][status = "running"]_vars

\* a delegate was reset and then invoked under assert()
C7_Witness ==
    /\ last.op = "invoke"
    /\ lastOp[last.d] = "reset"
    /\ status = "aborted"
    /\ ~last.called

\* C8: the payload a delegate holds always fits the buffer: a curried value
\* or instance pointer is at most sizeof(void *) long, a function object is
\* shorter than sizeof(void *), the buffer is never written past its end,
\* and connect accepts nothing larger.
C8_PayloadFitsStorage ==
    /\ \A d \in Delegates :
        /\ Len(storage[d]) = PtrSize
        /\ fn[d].kind = "candidate" => SizeOf(fn[d].type) <= PtrSize
        /\ fn[d].kind = "invokable" => SizeOf(fn[d].type) < PtrSize
    /\ \A cand \in Candidates, T \in ValueTypes :
        ConnectCandidateAccepts(cand, T) => SizeOf(T) <= PtrSize
    /\ \A T \in InvokableTypes :
        ConnectInvokableAccepts(T) => SizeOf(T) < PtrSize

\* a value as large as the buffer is bound
C8_Witness ==
    /\ last.op = "connect"
    /\ fn["lhs"].kind = "candidate"
    /\ fn["lhs"].cand = "g_acc"
    /\ SizeOf(fn["lhs"].type) = PtrSize

\* C9: every function object a delegate holds is trivially copyable and
\* trivially destructible.
C9_InvokableIsTrivial ==
    \A d \in Delegates :
        fn[d].kind = "invokable" =>
            /\ TriviallyCopyable(fn[d].type)
            /\ TriviallyDestructible(fn[d].type)

\* C10 (as claimed): an invocation leaves the trampoline and every byte of
\* the storage as they were.
C10_InvokeLeavesDelegateUnchanged ==
    [][(last'.op = "invoke" /\ status' = "running") =>
        (fn' = fn /\ storage' = storage)]_vars

\* C10 (amended): an invocation leaves the trampoline as it was, and every
\* byte of the storage too unless the bound callable itself assigns to the
\* payload it is handed by reference (a curried function through its first
\* parameter, a function object to its members); then the bytes of the
\* payload take the value the callable gave it, and the bytes behind the
\* payload stay as they were.
C10_InvokeChangesOnlyWhatCallableWrites ==
    [][(last'.op = "invoke" /\ status' = "running") =>
        LET d == last'.d
            n == IF HasPayload(bound[d]) THEN SizeOf(bound[d].type) ELSE 0
            dir == DirectCall(bound[d], shadow[d], last'.arg, obj)
        IN  /\ fn' = fn
            /\ Len(storage'[d]) = Len(storage[d])
            /\ \A k \in (n + 1)..PtrSize : storage'[d][k] = storage[d][k]
            /\ dir.payload = shadow[d] => storage' = storage
            /\ OperatorBool(fn'[d]) = OperatorBool(fn[d])
            /\ InstanceOf(storage'[d]) # InstanceOf(storage[d]) =>
                  dir.payload # shadow[d]]_vars

\* a function object that counts was invoked: its byte changed, behind it the
\* bytes of an earlier instance pointer did not
C10_Witness ==
    /\ last.op = "invoke"
    /\ status = "running"
    /\ bound["lhs"].type = "Accum"
    /\ shadow["lhs"] # bound["lhs"].val
    /\ storage["lhs"][PtrSize] # 0

====
